---- MODULE Spec2Model ----
(***************************************************************************)
(* Model of admixfrog/slug/em.py: the parameter update step (update_pars   *)
(* with update_ftau_numeric, update_ftau, update_c, update_eb) and the two *)
(* iteration controllers (em, squarem).                                    *)
(*                                                                         *)
(* Floating point values are modelled exactly on a grid of rationals.  A   *)
(* number is a triple <<n, d, e>> standing for (n + e*EPS)/d, where EPS is  *)
(* the 1e-10 of the source, kept symbolic and smaller than any difference  *)
(* of two grid values.  <<0,0,0>> is NaN and <<1,0,0>>, <<-1,0,0>> are     *)
(* +inf and -inf, the values numpy produces for 0/0 and x/0.               *)
(***************************************************************************)
EXTENDS Integers, Sequences, FiniteSets, TLC

VARIABLES
    data,        \* the SlugData the run works on (read only)
    controller,  \* the run configuration
    pars,        \* update driver / squarem: the current point `pars`
    ret,         \* update driver: outcome of the last update_pars call
    log,         \* set of log_ events emitted so far
    calls,       \* number of update_pars calls made
    run,         \* em: one run per setting of controller.copy_pars
    oracle,      \* em: the E-step results already computed, per parameter value
    sq           \* squarem: the locals of the function

vars == <<data, controller, pars, ret, log, calls, run, oracle, sq>>

-----------------------------------------------------------------------------
(* Bounds of the model *)

MaxReads == 1
MaxSnps == 1
MaxCalls == 1
MaxIter == 2
MaxLL == 1

-----------------------------------------------------------------------------
(* Numbers *)

Abs(x) == IF x < 0 THEN -x ELSE x

RECURSIVE GCD(_, _)
GCD(a, b) == IF b = 0 THEN a ELSE GCD(b, a % b)

NaN == <<0, 0, 0>>
PosInf == <<1, 0, 0>>
NegInf == <<-1, 0, 0>>

IsNaN(x) == x[2] = 0 /\ x[1] = 0
IsInf(x) == x[2] = 0 /\ x[1] # 0
IsFinite(x) == x[2] > 0

\* canonical form of (n + e*EPS)/d, d # 0
Normalize(n, d, e) ==
    LET s == IF d < 0 THEN -1 ELSE 1
        g == GCD(GCD(Abs(n), Abs(e)), Abs(d))
    IN  <<(s * n) \div g, (s * d) \div g, (s * e) \div g>>

Q(n, d) == Normalize(n, d, 0)
Int2R(n) == <<n, 1, 0>>
Zero == <<0, 1, 0>>
Half == <<1, 2, 0>>
One == <<1, 1, 0>>

\* sign of a number: the EPS part decides between equal grid values
Sign(x0) ==
    CHOOSE r \in {IF x[1] > 0 THEN 1
                  ELSE IF x[1] < 0 THEN -1
                  ELSE IF x[3] > 0 THEN 1
                  ELSE IF x[3] < 0 THEN -1
                  ELSE 0 : x \in {x0}} : TRUE

RNeg(x0) == CHOOSE r \in {<<-x[1], x[2], -x[3]>> : x \in {x0}} : TRUE

\* Each operator below takes its operands once (p = <<x, y>>) and computes on the values.

RAdd(x0, y0) ==
    CHOOSE r \in
      {LET x == p[1]
           y == p[2]
       IN  IF IsNaN(x) \/ IsNaN(y) THEN NaN
           ELSE IF IsInf(x) /\ IsInf(y) THEN (IF x = y THEN x ELSE NaN)
           ELSE IF IsInf(x) THEN x
           ELSE IF IsInf(y) THEN y
           ELSE Normalize(x[1] * y[2] + y[1] * x[2], x[2] * y[2],
                          x[3] * y[2] + y[3] * x[2]) : p \in {<<x0, y0>>}} : TRUE

RSub(x, y) == RAdd(x, RNeg(y))

\* product to first order in EPS; inf * 0 and anything with NaN is NaN
RMul(x0, y0) ==
    CHOOSE r \in
      {LET x == p[1]
           y == p[2]
           sg == Sign(x) * Sign(y)
       IN  IF IsNaN(x) \/ IsNaN(y) THEN NaN
           ELSE IF IsInf(x) \/ IsInf(y)
                THEN (IF sg > 0 THEN PosInf ELSE IF sg < 0 THEN NegInf ELSE NaN)
           ELSE Normalize(x[1] * y[1], x[2] * y[2],
                          x[1] * y[3] + y[1] * x[3]) : p \in {<<x0, y0>>}} : TRUE

\* IEEE division by a grid value (no EPS part): x/0 is an infinity, 0/0 is NaN
RDiv(x0, y0) ==
    CHOOSE r \in
      {LET x == p[1]
           y == p[2]
       IN  IF IsNaN(x) \/ IsNaN(y) THEN NaN
           ELSE IF IsInf(x)
                THEN (IF IsInf(y) THEN NaN
                      ELSE IF Sign(x) * (IF Sign(y) < 0 THEN -1 ELSE 1) > 0
                           THEN PosInf ELSE NegInf)
           ELSE IF IsInf(y) THEN Zero
           ELSE IF y[1] = 0
                THEN (IF Sign(x) > 0 THEN PosInf
                      ELSE IF Sign(x) < 0 THEN NegInf ELSE NaN)
           ELSE Normalize(x[1] * y[2], x[2] * y[1], x[3] * y[2]) : p \in {<<x0, y0>>}} : TRUE

\* comparisons: every comparison with NaN is false
RLt(x0, y0) ==
    \E p \in {<<x0, y0>>} :
        ~IsNaN(p[1]) /\ ~IsNaN(p[2]) /\ p[1] # p[2] /\ Sign(RSub(p[2], p[1])) > 0

RLe(x0, y0) ==
    \E p \in {<<x0, y0>>} :
        ~IsNaN(p[1]) /\ ~IsNaN(p[2]) /\ (p[1] = p[2] \/ Sign(RSub(p[2], p[1])) > 0)

\* np.clip(x, lo, hi) == minimum(maximum(x, lo), hi); NaN propagates
RClip(x0, lo0, hi0) ==
    CHOOSE r \in
      {LET m == IF RLt(p[1], p[2]) THEN p[2] ELSE p[1]
       IN  IF IsNaN(p[1]) THEN NaN
           ELSE IF RLt(p[3], m) THEN p[3] ELSE m : p \in {<<x0, lo0, hi0>>}} : TRUE

\* np.maximum(x, y); NaN propagates
RMax(x0, y0) ==
    CHOOSE r \in
      {IF IsNaN(p[1]) \/ IsNaN(p[2]) THEN NaN
       ELSE IF RLt(p[1], p[2]) THEN p[2] ELSE p[1] : p \in {<<x0, y0>>}} : TRUE

InUnit(x0) == \E x \in {x0} : RLe(Zero, x) /\ RLe(x, One)
InOpenUnit(x0) == \E x \in {x0} : RLt(Zero, x) /\ RLt(x, One)

\* the EPS of squarem and the optimiser bounds of update_ftau_numeric
EPS == <<0, 1, 1>>
OneMinusEPS == <<1, 1, -1>>

\* the sum of the entries of a vector
SumSeq(s0) ==
    CHOOSE r \in
      {LET acc[i \in 0..Len(s)] == IF i = 0 THEN Zero ELSE RAdd(acc[i - 1], s[i])
       IN  acc[Len(s)] : s \in {s0}} : TRUE

RECURSIVE SumInt(_, _)
SumInt(f, S) ==
    IF S = {} THEN 0
    ELSE LET x == CHOOSE x \in S : TRUE IN f[x] + SumInt(f, S \ {x})

-----------------------------------------------------------------------------
(* Data, configuration and parameters *)

Reads(d) == 1..d.n_reads
Snps(d) == 1..d.n_snps

\* a parameter vector with every block at a value of its declared domain
MkPars(F, tau, cont, e, b, ll, prev_ll) ==
    [F |-> F, tau |-> tau, cont |-> cont, e |-> e, b |-> b,
     ll |-> ll, prev_ll |-> prev_ll,
     prev_F |-> F, prev_tau |-> tau, prev_cont |-> cont, prev_e |-> e, prev_b |-> b]

\* the flattened vector pars.pars that squarem does arithmetic on
Flatten(p) == p.cont \o p.tau \o p.F \o <<p.e, p.b>>

\* pars.delta_ll, the successive log-likelihood improvement
delta_ll(p) == p.ll - p.prev_ll

LLs == 0..MaxLL

-----------------------------------------------------------------------------
(* update_c *)

ReadsOfRg(READ2RG, r) == {i \in DOMAIN READ2RG : READ2RG[i] = r}

\* np.mean over the reads of r: sum / count, which is 0/0 = NaN for an empty group
update_c(post_c, READ2RG, n_rgs) ==
    [r \in 1..n_rgs |->
        RDiv(Int2R(SumInt(post_c, ReadsOfRg(READ2RG, r))),
             Int2R(Cardinality(ReadsOfRg(READ2RG, r))))]

-----------------------------------------------------------------------------
(* update_eb *)

\* np.sum(post_x[sel, col])
SumCol(post_x, sel, col) == SumInt([i \in sel |-> post_x[i][col]], sel)

eb_counts(post_x, R, F) ==
    LET I == DOMAIN post_x
        Rb == [i \in I |-> R[i] # 0]
        RnF == {i \in I : Rb[i] /\ ~F[i]}
        RF == {i \in I : Rb[i] /\ F[i]}
        nRnF == {i \in I : ~Rb[i] /\ ~F[i]}
        nRF == {i \in I : ~Rb[i] /\ F[i]}
    IN  [errors |-> SumCol(post_x, RnF, 1) + SumCol(post_x, RF, 2),
         not_errors |-> SumCol(post_x, nRnF, 1) + SumCol(post_x, nRF, 2),
         bias |-> SumCol(post_x, nRnF, 2) + SumCol(post_x, nRF, 1),
         not_bias |-> SumCol(post_x, RnF, 2) + SumCol(post_x, RF, 1)]

update_eb(post_x, R, F, two_errors) ==
    LET c == eb_counts(post_x, R, F)
    IN  IF two_errors
        THEN [e |-> IF c.errors + c.not_errors > 0
                    THEN RDiv(Int2R(c.errors), Int2R(c.errors + c.not_errors))
                    ELSE Zero,
              b |-> IF c.bias + c.not_bias > 0
                    THEN RDiv(Int2R(c.bias), Int2R(c.bias + c.not_bias))
                    ELSE Zero]
        ELSE LET e == RDiv(Int2R(c.errors + c.bias),
                           Int2R(c.errors + c.bias + c.not_errors + c.not_bias))
             IN  [e |-> e, b |-> e]

-----------------------------------------------------------------------------
(* update_ftau and update_ftau_numeric *)

\* G0, G1, G2 = np.sum(post_g[ix], 0)
GSum(post_g, ix) == [j \in 1..3 |-> SumInt([s \in ix |-> post_g[s][j]], ix)]

SnpsOfSfs(d, k) == {s \in Snps(d) : d.SNP2SFS[s] = k}

\* a / (b + 1e-300) for counts 0 <= a <= b: the 1e-300 only matters when b = 0
DivTiny(a, b) == IF b = 0 THEN Zero ELSE Q(a, b)

\* one pass of the loop body of update_ftau for category k; ft = [F, tau]
ftau_step(ft, d, post_g, update_F, k) ==
    LET ix == SnpsOfSfs(d, k)
        G == GSum(post_g, ix)
        tau_k == IF G[1] + G[2] + G[3] > 0
                 THEN Q(G[2] + 2 * G[3], 2 * (G[1] + G[2] + G[3]))
                 ELSE Zero
        ix1 == ix \ d.haploid_snps
        GF == IF ~d.has_haploid \/ ix1 = {} THEN G ELSE GSum(post_g, ix1)
        F_k == RSub(DivTiny(2 * GF[1], 2 * GF[1] + GF[2]),
                    DivTiny(GF[2], 2 * GF[3] + GF[2]))
        F1 == IF update_F THEN [ft.F EXCEPT ![k] = F_k] ELSE ft.F
    IN  [F |-> [j \in DOMAIN F1 |-> RClip(F1[j], Zero, One)],
         tau |-> [ft.tau EXCEPT ![k] = tau_k]]

RECURSIVE ftau_loop(_, _, _, _, _)
ftau_loop(ft, d, post_g, update_F, k) ==
    IF k > d.n_sfs THEN ft
    ELSE ftau_loop(ftau_step(ft, d, post_g, update_F, k), d, post_g, update_F, k + 1)

\* the closed-form update: returns [F, tau]
update_ftau(old_F, old_tau, d, post_g, update_F) ==
    ftau_loop([F |-> old_F, tau |-> old_tau], d, post_g, update_F, 1)

\* c0, c1, c2 of f as products of factors, so that c = 0 is decided exactly:
\*   c0 = (1-tau) * (F + (1-F)(1-tau)),  c1 = 2 * (1-F) * tau * (1-tau),
\*   c2 = tau * (F + (1-F) tau)
c_factors(tau_, F_) ==
    LET t1 == RSub(One, tau_)
        f1 == RSub(One, F_)
    IN  <<  <<t1, RAdd(F_, RMul(f1, t1))>>,
            <<f1, tau_, t1>>,
            <<tau_, RAdd(F_, RMul(f1, tau_))>>  >>

NegCount(fs) == Cardinality({i \in DOMAIN fs : Sign(fs[i]) < 0})

\* np.log(c) * G is NaN when c is NaN or negative, or when c = 0 and G = 0 (-inf * 0)
term_is_nan(fs, G) ==
    \/ \E i \in DOMAIN fs : IsNaN(fs[i])
    \/ (\A i \in DOMAIN fs : Sign(fs[i]) # 0) /\ NegCount(fs) % 2 = 1
    \/ (\E i \in DOMAIN fs : Sign(fs[i]) = 0) /\ G = 0

\* f(init) raises ValueError("nan in likelihood")
f_raises(tau_, F_, G) ==
    \E j \in 1..3 : term_is_nan(c_factors(tau_, F_)[j], G[j])

\* bounds of the optimiser: (1e-10, 1 - 1e-10) for tau and for F
OptBounds == <<EPS, OneMinusEPS>>

\* update_ftau_numeric raises: update_F is off, or f(init) is NaN for some category
ftau_numeric_raises(old_F, old_tau, d, post_g, update_F) ==
    \/ ~update_F
    \/ \E k \in 1..d.n_sfs :
          f_raises(old_tau[k], old_F[k], GSum(post_g, SnpsOfSfs(d, k)))

\* opt[k] = [tau, F, success] is what minimize returns (OO.x, OO.success) for k
update_ftau_numeric(old_F, old_tau, d, post_g, update_F, opt) ==
    [F |-> [k \in 1..d.n_sfs |-> opt[k].F],
     tau |-> [k \in 1..d.n_sfs |-> opt[k].tau],
     log |-> {<<"debug", "error optimizing", k>> : k \in {j \in 1..d.n_sfs : ~opt[j].success}}]

-----------------------------------------------------------------------------
(* update_pars *)

OneHot3 == {<<1, 0, 0>>, <<0, 1, 0>>, <<0, 0, 1>>}
OneHot2 == {<<1, 0>>, <<0, 1>>}
OptResults == [tau : {EPS, OneMinusEPS}, F : {EPS, OneMinusEPS}, success : BOOLEAN]
NoOpt == [tau |-> Half, F |-> EPS, success |-> TRUE]

\* What the emission model, the posteriors, the optimiser and calc_full_ll hand to one
\* call of update_pars.  Only the blocks the controller enables are drawn; the rest is
\* never read and is held at a fixed value.
Ext(d, c) ==
    [post_g : IF c.update_ftau THEN [Snps(d) -> OneHot3]
              ELSE {[s \in Snps(d) |-> <<1, 0, 0>>]},
     opt : IF c.update_ftau /\ c.update_F THEN [1..d.n_sfs -> OptResults]
           ELSE {[k \in 1..d.n_sfs |-> NoOpt]},
     post_c : IF c.update_cont THEN [Reads(d) -> {0, 1}] ELSE {[i \in Reads(d) |-> 0]},
     post_x : IF c.update_eb THEN [Reads(d) -> OneHot2] ELSE {[i \in Reads(d) |-> <<1, 0>>]},
     ll : IF c.do_ll THEN LLs ELSE {0}]

\* the SFS update strategy lines 215-220 dispatch to
SfsStrategy(c) == IF c.update_ftau THEN "update_ftau_numeric" ELSE "none"

update_pars_raises(p, d, c, x) ==
    c.update_ftau /\ ftau_numeric_raises(p.F, p.tau, d, x.post_g, c.update_F)

update_pars_log(p, d, c, x) ==
    IF c.update_ftau
    THEN update_ftau_numeric(p.F, p.tau, d, x.post_g, c.update_F, x.opt).log
    ELSE {}

\* lines 215-220: the SFS block
sfs_block(p0, d, c, x) ==
    CHOOSE r \in
      {IF c.update_ftau
       THEN LET ft == update_ftau_numeric(p.F, p.tau, d, x.post_g, c.update_F, x.opt)
            IN  [p EXCEPT !.prev_F = p.F, !.prev_tau = p.tau, !.F = ft.F, !.tau = ft.tau]
       ELSE p : p \in {p0}} : TRUE

\* lines 222-225: the contamination block
cont_block(p0, d, c, x) ==
    CHOOSE r \in
      {IF c.update_cont
       THEN [p EXCEPT !.prev_cont = p.cont,
                      !.cont = update_c(x.post_c, d.READ2RG, d.n_rgs)]
       ELSE p : p \in {p0}} : TRUE

\* lines 227-232: the error and bias block
eb_block(p0, d, c, x) ==
    CHOOSE r \in
      {IF c.update_eb
       THEN [p EXCEPT !.prev_e = p.e, !.prev_b = p.b, !.e = q.e, !.b = q.b]
       ELSE p : <<p, q>> \in {p0} \X {update_eb(x.post_x, d.READS, d.FLIPPED_READS,
                                                c.update_bias)}} : TRUE

\* lines 234-235: the likelihood bookkeeping
ll_block(p0, c, x) ==
    CHOOSE r \in
      {IF c.do_ll THEN [p EXCEPT !.ll = x.ll, !.prev_ll = p.ll] ELSE p : p \in {p0}} : TRUE

\* the value update_pars returns (and, without copy_pars, leaves in its argument)
update_pars(p, d, c, x) ==
    ll_block(eb_block(cont_block(sfs_block(p, d, c, x), d, c, x), d, c, x), c, x)

-----------------------------------------------------------------------------
(* The update driver: update_pars called repeatedly on its own result *)

UpdData ==
    UNION {{[n_rgs |-> 2, n_sfs |-> 1, n_snps |-> ns, n_reads |-> nr,
             READ2RG |-> rg, READS |-> R, FLIPPED_READS |-> Fl,
             SNP2SFS |-> [s \in 1..ns |-> 1], has_haploid |-> FALSE, haploid_snps |-> {}] :
               rg \in [1..nr -> 1..2], R \in [1..nr -> {0, 1}], Fl \in [1..nr -> BOOLEAN]} :
           <<ns, nr>> \in (0..MaxSnps) \X (0..MaxReads)}

WellFormed(d) ==
    /\ DOMAIN d.READ2RG = Reads(d)
    /\ DOMAIN d.READS = Reads(d)
    /\ DOMAIN d.FLIPPED_READS = Reads(d)

Flags == [update_ftau : BOOLEAN, update_F : BOOLEAN, update_cont : BOOLEAN,
          update_eb : BOOLEAN, update_bias : BOOLEAN, do_ll : BOOLEAN]

Tuning(ll_tol, param_tol, n_iter, mn, mx, mstep, copy_pars) ==
    [ll_tol |-> ll_tol, param_tol |-> param_tol, n_iter |-> n_iter,
     squarem_min |-> mn, squarem_max |-> mx, squarem_mstep |-> mstep,
     copy_pars |-> copy_pars]

Merge(f, t) == [k \in DOMAIN f \cup DOMAIN t |-> IF k \in DOMAIN f THEN f[k] ELSE t[k]]

UpdControllers == {Merge(f, Tuning(0, Zero, 0, One, One, Int2R(2), TRUE)) : f \in Flags}

UpdPars0 ==
    {MkPars(<<F>>, <<Half>>, <<Half, Half>>, Zero, Zero, 0, 0) : F \in {Half, One}}

NoRet == [status |-> "none"]
NoRun == [b \in BOOLEAN |-> [pc |-> "idle"]]
NoSq == [pc |-> "idle"]

InitUpd ==
    /\ data \in {d \in UpdData : WellFormed(d)}
    /\ controller \in UpdControllers
    /\ pars \in UpdPars0
    /\ ret = NoRet
    /\ log = {}
    /\ calls = 0
    /\ run = NoRun
    /\ oracle = <<>>
    /\ sq = NoSq

\* one call pars = update_pars(pars, data, controller) that returns; ret keeps what
\* the call was given and which SFS strategy it ran
UpdateReturns ==
    /\ ret.status # "raised"
    /\ calls < MaxCalls
    /\ \E x \in Ext(data, controller) :
          /\ ~update_pars_raises(pars, data, controller, x)
          /\ pars' = update_pars(pars, data, controller, x)
          /\ log' = log \cup update_pars_log(pars, data, controller, x)
          /\ ret' = [status |-> "returned", strategy |-> SfsStrategy(controller),
                     x |-> x, arg |-> pars]
    /\ calls' = calls + 1
    /\ UNCHANGED <<data, controller, run, oracle, sq>>

\* one call of update_pars that raises out of update_ftau_numeric
UpdateRaises ==
    /\ ret.status # "raised"
    /\ calls < MaxCalls
    /\ \E x \in Ext(data, controller) : update_pars_raises(pars, data, controller, x)
    /\ ret' = [status |-> "raised"]
    /\ calls' = calls + 1
    /\ UNCHANGED <<data, controller, pars, log, run, oracle, sq>>

NextUpd == UpdateReturns \/ UpdateRaises

SpecUpd == InitUpd /\ [][NextUpd]_vars

-----------------------------------------------------------------------------
(* em: two runs on the same input, one per setting of controller.copy_pars *)

EmData ==
    {[n_rgs |-> 1, n_sfs |-> 1, n_snps |-> 0, n_reads |-> 1,
      READ2RG |-> <<1>>, READS |-> <<1>>, FLIPPED_READS |-> <<FALSE>>,
      SNP2SFS |-> <<>>, has_haploid |-> FALSE, haploid_snps |-> {}]}

\* update_cont with the likelihood, and the configuration update_ftau_numeric rejects
EmFlags ==
    {[update_ftau |-> ft, update_F |-> FALSE, update_cont |-> TRUE,
      update_eb |-> FALSE, update_bias |-> FALSE, do_ll |-> dl] :
        ft \in BOOLEAN, dl \in BOOLEAN}

EmControllers ==
    {Merge(f, Tuning(tol, Zero, n, One, One, Int2R(2), FALSE)) :
        f \in EmFlags, tol \in 0..1, n \in 0..MaxIter}

EmPars0 ==
    {MkPars(<<Half>>, <<Half>>, <<Half>>, Zero, Zero, ll, pl) : ll \in LLs, pl \in LLs}

InitEm ==
    /\ data \in EmData
    /\ controller \in EmControllers
    /\ pars \in EmPars0
    /\ ret = NoRet
    /\ log = {}
    /\ calls = 0
    /\ run = [b \in BOOLEAN |-> [pc |-> "loop", i |-> 0, pars |-> pars, n_upd |-> 0]]
    /\ oracle = <<>>
    /\ sq = NoSq

\* the E-step is a function of the data and the parameter values: the first call on
\* a parameter value draws its result, later calls on the same value get the same one
EStep(p, c) ==
    IF Flatten(p) \in DOMAIN oracle THEN {oracle[Flatten(p)]} ELSE Ext(data, c)

Remember(p, x) ==
    [k \in DOMAIN oracle \cup {Flatten(p)} |-> IF k = Flatten(p) THEN x ELSE oracle[k]]

\* em_break with the comparison off by one (<= for <)
em_break_le(p, c) == delta_ll(p) <= c.ll_tol

\* line 317: the loop's break condition
em_break(p, c) == delta_ll(p) < c.ll_tol

\* line 313: update_pars(pars, data, controller) with its return value dropped: the
\* caller's pars changes only when update_pars worked on it in place
em_pars_after(p, d, c, x) == IF c.copy_pars THEN p ELSE update_pars(p, d, c, x)

\* one pass of the loop body in the run with copy_pars = b
EmIter(b) ==
    LET r == run[b]
        c == [controller EXCEPT !.copy_pars = b]
    IN  /\ r.pc = "loop"
        /\ r.i < c.n_iter
        /\ \E x \in EStep(r.pars, c) :
              /\ ~update_pars_raises(r.pars, data, c, x)
              /\ oracle' = Remember(r.pars, x)
              /\ \E p1 \in {em_pars_after(r.pars, data, c, x)} :
                     run' = [run EXCEPT ![b] =
                        [pc |-> IF em_break(p1, c) THEN "returned" ELSE "loop",
                         i |-> r.i + 1, pars |-> p1, n_upd |-> r.n_upd + 1]]
        /\ UNCHANGED <<data, controller, pars, ret, log, calls, sq>>

\* update_pars raises and the exception leaves em
EmRaise(b) ==
    LET r == run[b]
        c == [controller EXCEPT !.copy_pars = b]
    IN  /\ r.pc = "loop"
        /\ r.i < c.n_iter
        /\ \E x \in EStep(r.pars, c) :
              /\ update_pars_raises(r.pars, data, c, x)
              /\ oracle' = Remember(r.pars, x)
        /\ run' = [run EXCEPT ![b] = [r EXCEPT !.pc = "raised", !.n_upd = r.n_upd + 1]]
        /\ UNCHANGED <<data, controller, pars, ret, log, calls, sq>>

\* range(n_iter) is exhausted: return pars
EmExhausted(b) ==
    /\ run[b].pc = "loop"
    /\ run[b].i >= controller.n_iter
    /\ run' = [run EXCEPT ![b] = [run[b] EXCEPT !.pc = "returned"]]
    /\ UNCHANGED <<data, controller, pars, ret, log, calls, oracle, sq>>

NextEm == \E b \in BOOLEAN : EmIter(b) \/ EmRaise(b) \/ EmExhausted(b)

SpecEm == InitEm /\ [][NextEm]_vars

-----------------------------------------------------------------------------
(* squarem *)

\* pars1 - pars: the difference of the flattened vectors
VSub(a0, b0) ==
    CHOOSE r \in {[i \in DOMAIN q[1] |-> RSub(q[1][i], q[2][i])] : q \in {<<a0, b0>>}} : TRUE

\* norm(v)^2 = np.nansum(np.power(v, 2)): NaN entries are skipped
NormSq(v0) ==
    CHOOSE r \in
      {SumSeq([i \in DOMAIN v |-> IF IsNaN(v[i]) THEN Zero ELSE RMul(v[i], v[i])]) :
         v \in {v0}} : TRUE

\* norm(v) < tol for tol >= 0, decided on the squares
norm_lt(v, tol) == RLt(NormSq(v), RMul(tol, tol))

IsSquareInt(n) == \E k \in 0..n : k * k = n
ISqrt(n) == CHOOSE k \in 0..n : k * k = n
IsSquare(r) == IsFinite(r) /\ r[3] = 0 /\ r[1] >= 0 /\ IsSquareInt(r[1]) /\ IsSquareInt(r[2])
RSqrt(r) == <<ISqrt(r[1]), ISqrt(r[2]), 0>>

\* lines 271-272: np.clip(norm(dp1) / norm(dp3), min_step, max_step), for bounds >= 0.
\* r is the square of the quotient; the clip is decided on squares, the root is taken
\* only of a quotient that stays within the bounds.
step_size_of(dp1, dp3, min_step, max_step) ==
    CHOOSE s \in
      {IF IsNaN(r) THEN NaN
       ELSE IF RLt(r, RMul(min_step, min_step))
            THEN (IF RLt(max_step, min_step) THEN max_step ELSE min_step)
       ELSE IF RLt(RMul(max_step, max_step), r) THEN max_step
       ELSE RSqrt(r) : r \in {RDiv(NormSq(dp1), NormSq(dp3))}} : TRUE

\* the inputs the model can follow: the quotient of the norms is NaN, is clipped, or
\* has a rational root
StepExact(dp1, dp3, min_step, max_step) ==
    \E r \in {RDiv(NormSq(dp1), NormSq(dp3))} :
        \/ IsNaN(r)
        \/ RLt(r, RMul(min_step, min_step))
        \/ RLt(RMul(max_step, max_step), r)
        \/ IsSquare(r)

\* line 275: pars.pars + 2 * step_size * dp1 + step_size * step_size * dp3
extrapolate(p0, step0, dp10, dp30) ==
    CHOOSE r \in
      {[i \in DOMAIN q[1] |-> RAdd(RAdd(q[1][i], RMul(q[2], q[4][i])), RMul(q[3], q[5][i]))] :
         q \in {<<p0, RMul(Int2R(2), step0), RMul(step0, step0), dp10, dp30>>}} : TRUE

\* lines 278-282: the stabilization step
stabilize(v0) ==
    CHOOSE r \in
      {IF (\A i \in DOMAIN v : RLe(Zero, v[i])) /\ (\A i \in DOMAIN v : RLe(v[i], One))
       THEN v
       ELSE [i \in DOMAIN v |->
               IF RLt(v[i], Zero) THEN EPS
               ELSE IF RLt(One, v[i]) THEN OneMinusEPS
               ELSE v[i]] : v \in {v0}} : TRUE

\* pars_sq = deepcopy(pars2); pars_sq.pars[:] = v
WithVector(p, v) ==
    LET nc == Len(p.cont)
        nt == Len(p.tau)
        nf == Len(p.F)
    IN  [p EXCEPT !.cont = [i \in 1..nc |-> v[i]],
                  !.tau = [i \in 1..nt |-> v[nc + i]],
                  !.F = [i \in 1..nf |-> v[nc + nt + i]],
                  !.e = v[nc + nt + nf + 1],
                  !.b = v[nc + nt + nf + 2]]

\* lines 253-254 and 262: the two stopping checks
stop1(p1, dp1, c) == norm_lt(dp1, c.param_tol) \/ p1.ll - p1.prev_ll < c.ll_tol
stop2(p1, p2, dp2, c) == norm_lt(dp2, c.param_tol) \/ p2.ll - p1.ll < c.ll_tol

\* line 291: the candidate did not improve on pars2
rejected(psq, p2) == psq.ll <= p2.ll

\* max_step_rejected with the floor at squarem_min instead of squarem_max
max_step_rejected_min_floor(step, max_step, c) ==
    IF RLe(max_step, step)
    THEN RMax(c.squarem_min, RDiv(max_step, c.squarem_mstep))
    ELSE max_step

\* lines 293-296: the bound on the step after a rejected candidate
max_step_rejected(step, max_step, c) ==
    IF RLe(max_step, step)
    THEN RMax(c.squarem_max, RDiv(max_step, c.squarem_mstep))
    ELSE max_step

\* lines 299-300: the bound on the step after an accepted candidate
max_step_accepted(step, max_step, c) ==
    IF ~IsNaN(step) /\ step = max_step THEN RMul(max_step, c.squarem_mstep) ELSE max_step

\* two reads of read group 1; with n_rgs = 2 read group 2 has no read
SqData ==
    {[n_rgs |-> n, n_sfs |-> 1, n_snps |-> 0, n_reads |-> 2,
      READ2RG |-> <<1, 1>>, READS |-> <<1, 1>>, FLIPPED_READS |-> <<FALSE, FALSE>>,
      SNP2SFS |-> <<>>, has_haploid |-> FALSE, haploid_snps |-> {}] : n \in 1..2}

SqFlags ==
    [update_ftau |-> FALSE, update_F |-> TRUE, update_cont |-> TRUE,
     update_eb |-> FALSE, update_bias |-> TRUE, do_ll |-> TRUE]

\* tolerances of zero (run for the whole budget) or loose ones; bound 1 or 2, factor 2
SqControllers ==
    {Merge(SqFlags, Tuning(t[1], t[2], MaxIter, One, mx, Int2R(2), FALSE)) :
        t \in {<<0, Zero>>, <<1, Half>>}, mx \in {One, Int2R(2)}}

SqPars0(d) ==
    {MkPars(<<Half>>, <<Half>>, [r \in 1..d.n_rgs |-> IF r = 1 THEN Zero ELSE Half],
            Zero, Zero, ll, ll) : ll \in LLs}

InitSq ==
    /\ data \in SqData
    /\ controller \in SqControllers
    /\ pars \in SqPars0(data)
    /\ ret = NoRet
    /\ log = {}
    /\ calls = 0
    /\ run = NoRun
    /\ oracle = <<>>
    /\ sq = [pc |-> "start"]

\* lines 243-247
SqStart ==
    /\ sq.pc = "start"
    /\ controller' = [controller EXCEPT !.copy_pars = TRUE]
    /\ sq' = [pc |-> "loop", i |-> 0, max_step |-> controller.squarem_max,
              ll_before |-> pars.ll]
    /\ UNCHANGED <<data, pars, ret, log, calls, run, oracle>>

\* lines 250-258: the first update and its stopping check
SqUpdate1 ==
    /\ sq.pc = "loop"
    /\ sq.i < controller.n_iter
    /\ \E x \in Ext(data, controller) :
       \E p1 \in {update_pars(pars, data, controller, x)} :
       \E dp1 \in {VSub(Flatten(p1), Flatten(pars))} :
       \E stop \in {stop1(p1, dp1, controller)} :
         /\ pars' = IF stop THEN p1 ELSE pars
         /\ sq' = [pc |-> IF stop THEN "returned" ELSE "second",
                   i |-> sq.i, max_step |-> sq.max_step,
                   ll_before |-> pars.ll, pars1 |-> p1, dp1 |-> dp1]
    /\ calls' = calls + 1
    /\ UNCHANGED <<data, controller, ret, log, run, oracle>>

\* lines 260-267: the second update and its stopping check
SqUpdate2 ==
    /\ sq.pc = "second"
    /\ \E x \in Ext(data, controller) :
       \E p2 \in {update_pars(sq.pars1, data, controller, x)} :
       \E dp2 \in {VSub(Flatten(p2), Flatten(sq.pars1))} :
       \E stop \in {stop2(sq.pars1, p2, dp2, controller)} :
         /\ stop \/ StepExact(sq.dp1, VSub(dp2, sq.dp1), controller.squarem_min, sq.max_step)
         /\ pars' = IF stop THEN p2 ELSE pars
         /\ sq' = [pc |-> IF stop THEN "returned" ELSE "extrapolate",
                   i |-> sq.i, max_step |-> sq.max_step,
                   ll_before |-> sq.ll_before, pars1 |-> sq.pars1, dp1 |-> sq.dp1,
                   pars2 |-> p2, dp2 |-> dp2]
    /\ calls' = calls + 1
    /\ UNCHANGED <<data, controller, ret, log, run, oracle>>

\* lines 269-282: the step size and the stabilized candidate
SqExtrapolate ==
    /\ sq.pc = "extrapolate"
    /\ \E dp3 \in {VSub(sq.dp2, sq.dp1)} :
       \E step \in {step_size_of(sq.dp1, dp3, controller.squarem_min, sq.max_step)} :
       \E raw \in {extrapolate(Flatten(pars), step, sq.dp1, dp3)} :
         sq' = [pc |-> "evaluate", i |-> sq.i, max_step |-> sq.max_step,
                ll_before |-> sq.ll_before, pars1 |-> sq.pars1, dp1 |-> sq.dp1,
                pars2 |-> sq.pars2, dp2 |-> sq.dp2, dp3 |-> dp3,
                step_size |-> step, raw |-> raw, candidate |-> stabilize(raw)]
    /\ UNCHANGED <<data, controller, pars, ret, log, calls, run, oracle>>

\* line 284: pars_sq = update_pars(pars_sq, data, controller)
SqEvaluate ==
    /\ sq.pc = "evaluate"
    /\ \E x \in Ext(data, controller) :
         sq' = [pc |-> "decide", i |-> sq.i, max_step |-> sq.max_step,
                ll_before |-> sq.ll_before, pars2 |-> sq.pars2,
                step_size |-> sq.step_size,
                pars_sq |-> update_pars(WithVector(sq.pars2, sq.candidate),
                                        data, controller, x)]
    /\ calls' = calls + 1
    /\ UNCHANGED <<data, controller, pars, ret, log, run, oracle>>

\* lines 290-300: keep pars2 or take the candidate, adapt the bound, next i.
\* The locals of the finished pass are dead: the next pass writes each before it
\* reads it, so only the step, the old bound and the decision are kept.
SqDecide ==
    /\ sq.pc = "decide"
    /\ LET rej == rejected(sq.pars_sq, sq.pars2)
       IN  /\ pars' = IF rej THEN sq.pars2 ELSE sq.pars_sq
           /\ sq' = [pc |-> "loop", i |-> sq.i + 1,
                     max_step |-> IF rej
                                  THEN max_step_rejected(sq.step_size, sq.max_step, controller)
                                  ELSE max_step_accepted(sq.step_size, sq.max_step, controller),
                     ll_before |-> sq.ll_before,
                     accepted |-> ~rej, step_size |-> sq.step_size,
                     max_before |-> sq.max_step]
    /\ UNCHANGED <<data, controller, ret, log, calls, run, oracle>>

\* range(n_iter) is exhausted: line 308
SqExhausted ==
    /\ sq.pc = "loop"
    /\ sq.i >= controller.n_iter
    /\ sq' = [sq EXCEPT !.pc = "returned"]
    /\ UNCHANGED <<data, controller, pars, ret, log, calls, run, oracle>>

NextSq ==
    \/ SqStart
    \/ SqUpdate1
    \/ SqUpdate2
    \/ SqExtrapolate
    \/ SqEvaluate
    \/ SqDecide
    \/ SqExhausted

SpecSq == InitSq /\ [][NextSq]_vars

-----------------------------------------------------------------------------
(* Claims about update_pars and the update functions (SpecUpd) *)

Returned == ret.status = "returned"

\* C5: after every call of update_pars every probability-valued parameter is within
\* its declared bound: 0 <= F[k] <= 1, 0 < tau[k] < 1, 0 <= cont[r] <= 1,
\* 0 <= e <= 1 and 0 <= b <= 1.
C5_ParsInBounds ==
    Returned =>
        /\ \A k \in DOMAIN pars.F : InUnit(pars.F[k])
        /\ \A k \in DOMAIN pars.tau : InOpenUnit(pars.tau[k])
        /\ \A r \in DOMAIN pars.cont : InUnit(pars.cont[r])
        /\ InUnit(pars.e)
        /\ InUnit(pars.b)

EmptySfs(d) == {k \in 1..d.n_sfs : SnpsOfSfs(d, k) = {}}
EmptyRgs(d) == {r \in 1..d.n_rgs : ReadsOfRg(d.READ2RG, r) = {}}

\* C6: a degenerate denominator yields a defined fallback: tau = 0 for an SFS category
\* without SNPs in update_ftau, a NaN-free cont[r] for a read group without reads in
\* update_c, and rate 0 for an error or bias class of total count 0 in update_eb, in
\* the two-rate mode and in the single-rate mode.
C6_DegenerateFallback ==
    Returned =>
        /\ \A k \in EmptySfs(data) :
              update_ftau(ret.arg.F, ret.arg.tau, data, ret.x.post_g, TRUE).tau[k] = Zero
        /\ controller.update_cont =>
              \A r \in EmptyRgs(data) : ~IsNaN(pars.cont[r])
        /\ controller.update_eb =>
              LET c == eb_counts(ret.x.post_x, data.READS, data.FLIPPED_READS)
              IN  IF controller.update_bias
                  THEN /\ c.errors + c.not_errors = 0 => pars.e = Zero
                       /\ c.bias + c.not_bias = 0 => pars.b = Zero
                  ELSE c.errors + c.bias + c.not_errors + c.not_bias = 0
                          => pars.e = Zero /\ pars.b = Zero

\* C8: both SFS strategies, update_ftau and update_ftau_numeric, are reachable from a
\* half-step and selected by the run configuration; an optimiser that did not converge
\* for a category is logged, and the category's estimate is accepted.
C8_BothStrategiesSelectable ==
    (Returned /\ controller.update_ftau) =>
        /\ {SfsStrategy(c) : c \in {u \in UpdControllers : u.update_ftau}}
              = {"update_ftau", "update_ftau_numeric"}
        /\ \A k \in 1..data.n_sfs :
              /\ pars.tau[k] = ret.x.opt[k].tau
              /\ pars.F[k] = ret.x.opt[k].F
              /\ ~ret.x.opt[k].success => <<"debug", "error optimizing", k>> \in log

-----------------------------------------------------------------------------
(* Claims about em (SpecEm) *)

C7_CopyParsEquivalent ==
    (run[TRUE].pc = "returned" /\ run[FALSE].pc = "returned") =>
        /\ Flatten(run[TRUE].pars) = Flatten(run[FALSE].pars)
        /\ run[TRUE].pars.ll = run[FALSE].pars.ll
        /\ run[TRUE].n_upd = run[FALSE].n_upd

-----------------------------------------------------------------------------
(* Claims about squarem (SpecSq) *)

\* C1: the ll of pars at the end of a pass of the loop is >= the ll of pars at its
\* start, also when the pass ends at a stopping check.
C1_NeverDecreases ==
    sq.pc \in {"loop", "returned"} => pars.ll >= sq.ll_before

IsZeroVector(v) == \A i \in DOMAIN v : v[i] = Zero

\* C3: when dp3 is the zero vector the pass divides by nothing, counts as converged
\* and squarem returns pars2; no candidate is built.
C3_ZeroDp3ReturnsP2 ==
    ("dp3" \in DOMAIN sq /\ IsZeroVector(sq.dp3)) =>
        /\ sq.pc = "returned"
        /\ pars = sq.pars2
        /\ "candidate" \notin DOMAIN sq

\* C4: every component of the extrapolated vector below 0 becomes EPS, every one
\* above 1 becomes 1 - EPS, the others stay as computed, and update_pars is called on
\* a candidate whose components all lie in [0, 1].
C4_CandidateInUnit ==
    sq.pc = "evaluate" =>
        \A i \in DOMAIN sq.raw :
            /\ RLt(sq.raw[i], Zero) => sq.candidate[i] = EPS
            /\ RLt(One, sq.raw[i]) => sq.candidate[i] = OneMinusEPS
            /\ InUnit(sq.raw[i]) => sq.candidate[i] = sq.raw[i]
            /\ InUnit(sq.candidate[i])

\* C9 as claimed: a candidate with pars_sq.ll <= pars2.ll is rejected and pars2 is the
\* next point; if the step had hit the bound, the bound is divided by squarem_mstep
\* but not set below squarem_min; otherwise the bound is unchanged.
C9_FloorAtMin ==
    [][(sq.pc = "decide" /\ sq.pars_sq.ll <= sq.pars2.ll) =>
          /\ pars' = sq.pars2
          /\ sq'.max_step =
                IF RLe(sq.max_step, sq.step_size)
                THEN RMax(controller.squarem_min,
                          RDiv(sq.max_step, controller.squarem_mstep))
                ELSE sq.max_step]_vars

\* C9 amended: as above, but the bound is not set below squarem_max, the bound the
\* run started with.
C9_FloorAtMax ==
    [][(sq.pc = "decide" /\ sq.pars_sq.ll <= sq.pars2.ll) =>
          /\ pars' = sq.pars2
          /\ sq'.max_step =
                IF RLe(sq.max_step, sq.step_size)
                THEN RMax(controller.squarem_max,
                          RDiv(sq.max_step, controller.squarem_mstep))
                ELSE sq.max_step]_vars

\* a rejected candidate whose step had hit the bound, and the floor kept the bound
\* above the quotient
C9_Witness ==
    /\ sq.pc = "loop"
    /\ "accepted" \in DOMAIN sq
    /\ ~sq.accepted
    /\ RLt(controller.squarem_min, controller.squarem_max)
    /\ RLe(sq.max_before, sq.step_size)
    /\ RLt(RDiv(sq.max_before, controller.squarem_mstep), controller.squarem_max)
    /\ sq.max_step = controller.squarem_max

\* C10: a candidate with pars_sq.ll > pars2.ll is the next point; the bound is
\* multiplied by squarem_mstep exactly when the clipped step equals it; and the step
\* used always satisfies min_step <= step_size <= max_step.
C10_AcceptAndStepBounds ==
    [][sq.pc = "decide" =>
          /\ RLe(controller.squarem_min, sq.step_size)
          /\ RLe(sq.step_size, sq.max_step)
          /\ sq.pars_sq.ll > sq.pars2.ll =>
                /\ pars' = sq.pars_sq
                /\ sq'.max_step =
                      IF sq.step_size = sq.max_step
                      THEN RMul(sq.max_step, controller.squarem_mstep)
                      ELSE sq.max_step]_vars

====
